---- MODULE Spec2Model ----
(***************************************************************************)
(* A model of the live voice conversation of the WeChat assistant:         *)
(* components/VoiceChatModal (session lifecycle, capture start, playback   *)
(* scheduling, interruption, teardown) as driven by App.tsx.               *)
(*                                                                         *)
(* Objects are named by the connection attempt that created them: attempt  *)
(* s creates input context s, output context s, microphone stream s, live  *)
(* channel s and, in its onopen, script processor s.  A ref holds 0 for    *)
(* null or the name of the object it points to.                            *)
(* Time is counted in frame periods of the output context, so a buffer of  *)
(* n frames lasts n time units.                                            *)
(***************************************************************************)
EXTENDS Integers, Sequences, FiniteSets, TLC

\* ---- bounds of the model
\* connection attempts of a run
MaxAttempts == 2
\* audio messages of a run with one connection attempt; every further
\* attempt leaves one audio message less
MaxChunks == 2
\* largest value of an output clock
MaxTime == 2
\* largest audio payload of a message, in bytes
MaxBytes == 3

\* capture ticks of a run
MaxTicks == 3
\* samples of one capture block (the code's blocks hold 4096)
BlockLen == 2
\* largest sample magnitude, in hundredths of full scale
MaxAmp == 2

\* notes loaded from local storage when the app starts
MaxNotes == 51
\* calls of classifyContent in a run
MaxSends == 2
\* calls of generateWeeklyReport in a run
MaxReports == 1
\* presses of the record button in a run
MaxPresses == 2

\* ---- program constants
NumChannels == 1
\* line 75: notes.slice(0, 50)
ContextNotes == 50
\* the gate of line 123, 0.01, in hundredths of full scale
VadThreshold == 1
BytesPerSample == 2
ErrNone == "null"
ErrConn == "Connection error."
ErrMic == "Failed to access microphone or connect."

Attempts == 1..MaxAttempts
Presses == 1..MaxPresses
Null == 0

VARIABLES
    isOpen,                 \* prop isOpen of the modal
    apiKey,                 \* process.env.API_KEY is set
    isConnected, isSpeaking, isAIResponding, error,
    inputAudioContextRef, outputAudioContextRef, streamRef,
    processorRef, sourceRef,
    nextStartTimeRef, sourcesRef, sessionRef,
    pc,                     \* position of each connectToLiveAPI call
    chan,                   \* state of each live channel
    inCtxOpen, outCtxOpen,  \* audio contexts created and not closed
    liveStreams,            \* microphone streams whose tracks are not stopped
    procConnected,          \* script processors connected to a destination
    procCtx,                \* input context each processor was created on
    clock,                  \* currentTime of each output context
    chunks,                 \* inbound audio messages, in arrival order
    cancelled,              \* attempts that were awaiting the microphone when the modal closed
    releaseCalls,           \* calls that released each stream and audio context
    sessionResolved,        \* sessions whose sessionPromise has resolved
    pendingSends,           \* per session: frames whose then-callback waits for the promise
    sent,                   \* frames handed to sendRealtimeInput, in call order
    nTicks,                 \* capture ticks delivered so far
    lastBlock,              \* inputData of the latest capture tick
    contextSummary,         \* notes whose lines the latest systemInstruction holds
    notes,                  \* App: the note list, newest first
    isProcessing,           \* App: a classification is shown as running
    textInFlight,           \* App: classifyContent calls of handleSend not yet settled
    nClassify,              \* App: classifyContent calls made so far
    isGeneratingReport, reportInFlight, weeklyReport, nReports,
    isRecording, mediaRecorderRef,
    rec,                    \* App: position of each press of the record button
    micLive,                \* App: recorder streams whose tracks are not stopped
    held                    \* App: the record button is held down

vars == <<isOpen, apiKey, isConnected, isSpeaking, isAIResponding, error,
          inputAudioContextRef, outputAudioContextRef, streamRef,
          processorRef, sourceRef, nextStartTimeRef, sourcesRef, sessionRef,
          pc, chan, inCtxOpen, outCtxOpen, liveStreams, procConnected,
          procCtx, clock, chunks, cancelled, releaseCalls, sessionResolved,
          pendingSends, sent, nTicks, lastBlock, contextSummary, notes,
          isProcessing, textInFlight, nClassify, isGeneratingReport,
          reportInFlight, weeklyReport, nReports, isRecording,
          mediaRecorderRef, rec, micLive, held>>

noteVars == <<notes, isProcessing, textInFlight, nClassify,
              isGeneratingReport, reportInFlight, weeklyReport, nReports>>

recVars == <<isRecording, mediaRecorderRef, rec, micLive, held>>

captureVars == <<sessionResolved, pendingSends, sent, nTicks, lastBlock>>

Max(a, b) == IF a >= b THEN a ELSE b

\* ---- decodeAudioData / base64ToUint8Array (utils/audioUtils)
\* a payload of odd byte length is not a whole number of 16-bit samples
DecodeFails(bytes) == bytes % (BytesPerSample * NumChannels) # 0

\* duration of the decoded buffer, in frame periods
Duration(bytes) == bytes \div (BytesPerSample * NumChannels)

\* ---- the part of the state cleanupAudio works on
AudioState ==
    [processorRef |-> processorRef, sourceRef |-> sourceRef,
     streamRef |-> streamRef,
     inputAudioContextRef |-> inputAudioContextRef,
     outputAudioContextRef |-> outputAudioContextRef,
     sourcesRef |-> sourcesRef,
     isConnected |-> isConnected, isSpeaking |-> isSpeaking,
     isAIResponding |-> isAIResponding,
     procConnected |-> procConnected, liveStreams |-> liveStreams,
     inCtxOpen |-> inCtxOpen, outCtxOpen |-> outCtxOpen,
     chunks |-> chunks, releaseCalls |-> releaseCalls]

SetAudioState(a) ==
    /\ processorRef' = a.processorRef
    /\ sourceRef' = a.sourceRef
    /\ streamRef' = a.streamRef
    /\ inputAudioContextRef' = a.inputAudioContextRef
    /\ outputAudioContextRef' = a.outputAudioContextRef
    /\ sourcesRef' = a.sourcesRef
    /\ isConnected' = a.isConnected
    /\ isSpeaking' = a.isSpeaking
    /\ isAIResponding' = a.isAIResponding
    /\ procConnected' = a.procConnected
    /\ liveStreams' = a.liveStreams
    /\ inCtxOpen' = a.inCtxOpen
    /\ outCtxOpen' = a.outCtxOpen
    /\ chunks' = a.chunks
    /\ releaseCalls' = a.releaseCalls

\* source.stop() on every member of a set of sources
StopAll(cs, set) ==
    [i \in DOMAIN cs |->
        IF i \in set THEN [cs[i] EXCEPT !.stopped = TRUE] ELSE cs[i]]

\* one more call of track.stop() or close() on object obj, if there is one
Release(rc, obj, kind) ==
    IF obj = Null THEN rc ELSE [rc EXCEPT ![obj][kind] = @ + 1]

\* cleanupAudio without the assignments of null at lines 45, 49 and 53
cleanupAudio_NoNull(a) ==
    [a EXCEPT
        !.releaseCalls =
            Release(Release(Release(a.releaseCalls,
                                    a.streamRef, "stream"),
                            a.inputAudioContextRef, "inCtx"),
                    a.outputAudioContextRef, "outCtx"),
        !.procConnected = a.procConnected \ {a.processorRef},
        !.processorRef = Null,
        !.sourceRef = Null,
        !.liveStreams = a.liveStreams \ {a.streamRef},
        !.inCtxOpen = a.inCtxOpen \ {a.inputAudioContextRef},
        !.outCtxOpen = a.outCtxOpen \ {a.outputAudioContextRef},
        !.chunks = StopAll(a.chunks, a.sourcesRef),
        !.sourcesRef = {},
        !.isConnected = FALSE,
        !.isSpeaking = FALSE,
        !.isAIResponding = FALSE]

cleanupAudio(a) ==
    [a EXCEPT
        !.releaseCalls =
            Release(Release(Release(a.releaseCalls,
                                    a.streamRef, "stream"),
                            a.inputAudioContextRef, "inCtx"),
                    a.outputAudioContextRef, "outCtx"),
        !.procConnected = a.procConnected \ {a.processorRef},
        !.processorRef = Null,
        !.sourceRef = Null,
        !.liveStreams = a.liveStreams \ {a.streamRef},
        !.streamRef = Null,
        !.inCtxOpen = a.inCtxOpen \ {a.inputAudioContextRef},
        !.inputAudioContextRef = Null,
        !.outCtxOpen = a.outCtxOpen \ {a.outputAudioContextRef},
        !.outputAudioContextRef = Null,
        !.chunks = StopAll(a.chunks, a.sourcesRef),
        !.sourcesRef = {},
        !.isConnected = FALSE,
        !.isSpeaking = FALSE,
        !.isAIResponding = FALSE]

\* the App before anything was sent or recorded, with the list ns loaded
\* from local storage (App.tsx lines 50-58)
AppStarted(ns) ==
    /\ notes = ns
    /\ contextSummary = <<>>
    /\ isProcessing = FALSE
    /\ textInFlight = 0
    /\ nClassify = 0
    /\ isGeneratingReport = FALSE
    /\ reportInFlight = 0
    /\ weeklyReport = 0
    /\ nReports = 0
    /\ isRecording = FALSE
    /\ mediaRecorderRef = Null
    /\ rec = [p \in Presses |-> "idle"]
    /\ micLive = {}
    /\ held = FALSE

\* the list local storage holds after n notes: ids n down to 1, the
\* newest first
Loaded(n) == [i \in 1..n |-> n + 1 - i]

ModalMounted ==
    /\ isOpen = FALSE
    /\ apiKey \in BOOLEAN
    /\ isConnected = FALSE
    /\ isSpeaking = FALSE
    /\ isAIResponding = FALSE
    /\ error = ErrNone
    /\ inputAudioContextRef = Null
    /\ outputAudioContextRef = Null
    /\ streamRef = Null
    /\ processorRef = Null
    /\ sourceRef = Null
    /\ nextStartTimeRef = 0
    /\ sourcesRef = {}
    /\ sessionRef = Null
    /\ pc = [s \in Attempts |-> "idle"]
    /\ chan = [s \in Attempts |-> "none"]
    /\ inCtxOpen = {}
    /\ outCtxOpen = {}
    /\ liveStreams = {}
    /\ procConnected = {}
    /\ procCtx = [s \in Attempts |-> Null]
    /\ clock = [s \in Attempts |-> 0]
    /\ chunks = <<>>
    /\ cancelled = {}
    /\ releaseCalls = [s \in Attempts |-> [stream |-> 0, inCtx |-> 0, outCtx |-> 0]]
    /\ sessionResolved = {}
    /\ pendingSends = [s \in Attempts |-> <<>>]
    /\ sent = <<>>
    /\ nTicks = 0
    /\ lastBlock = <<>>

Init == ModalMounted /\ AppStarted(<<>>)

\* the app starts with up to MaxNotes notes in local storage
InitLoaded == ModalMounted /\ \E n \in 0..MaxNotes : AppStarted(Loaded(n))

\* ---- helpers of the actions
Min(a, b) == IF a <= b THEN a ELSE b

\* Array.prototype.slice(0, n): the elements at indexes 0 .. min(length, n) - 1
SliceFromStart(ns, n) == SubSeq(ns, 1, Min(Len(ns), n))

\* slice(-50): the last ContextNotes notes
ContextOf_Last(ns) ==
    SubSeq(ns, Len(ns) - Min(Len(ns), ContextNotes) + 1, Len(ns))

\* line 75: notes.slice(0, 50).map(...).join: one line per note, in order
ContextOf(ns) == SliceFromStart(ns, ContextNotes)

Abs(x) == IF x < 0 THEN 0 - x ELSE x

\* line 121: inputData.reduce((a, b) => a + Math.abs(b), 0)
RECURSIVE SumAbs(_)
SumAbs(inputData) ==
    IF inputData = <<>> THEN 0
    ELSE Abs(Head(inputData)) + SumAbs(Tail(inputData))

\* the gate of line 123 with >= in the place of >
VadSpeaking_Gte(inputData) ==
    SumAbs(inputData) >= VadThreshold * Len(inputData)

\* lines 122-124: avg = sum / length; speaking iff avg > 0.01. The
\* division is carried to the other side of the comparison.
VadSpeaking(inputData) ==
    SumAbs(inputData) > VadThreshold * Len(inputData)

Blocks == [1..BlockLen -> (0 - MaxAmp)..MaxAmp]

\* lines 126-128: the frame of a tick, named by the tick that made it;
\* queued records whether its send had to wait for the session promise
Frame(p, tick, queued) == [sess |-> p, tick |-> tick, queued |-> queued]

\* the then-callbacks run last registered first
FlushThen_Lifo(sentSoFar, queue) ==
    sentSoFar \o [i \in 1..Len(queue) |-> queue[Len(queue) + 1 - i]]

\* line 127: the then-callbacks of a promise run in the order they were
\* registered
FlushThen(sentSoFar, queue) == sentSoFar \o queue

NumAttempts == Cardinality({s \in Attempts : pc[s] # "idle"})

ErrStates == {"error", "errorClosed"}

\* the session made an Error transition: its channel reported an error or
\* its connectToLiveAPI ended in the catch block
InError(s) == pc[s] = "failed" \/ chan[s] \in ErrStates

\* line 143: the cursor never lies behind the clock of the output context
StartAt(next, now) == Max(next, now)

\* arguments of source.start: the time handed to it and the clock it sees
Started(ch, next, now, prev) ==
    [ch EXCEPT !.st = "started", !.startAt = next, !.startClock = now,
               !.prevEnd = prev]

\* the interruption without s.stop() of line 168
Interrupted_NoStop(cs, set) ==
    [i \in DOMAIN cs |->
        IF i \notin set /\ cs[i].st = "decoding"
        THEN [cs[i] EXCEPT !.stale = TRUE]
        ELSE cs[i]]

\* lines 168-169: stop every source of the active set; a chunk whose decode
\* is still pending is marked as having been overtaken by the interruption
Interrupted(cs, set) ==
    [i \in DOMAIN cs |->
        IF i \in set THEN [cs[i] EXCEPT !.stopped = TRUE]
        ELSE IF cs[i].st = "decoding" THEN [cs[i] EXCEPT !.stale = TRUE]
        ELSE cs[i]]

RECURSIVE MaxOf(_)
MaxOf(S) == IF S = {} THEN 0
            ELSE LET x == CHOOSE y \in S : TRUE IN Max(x, MaxOf(S \ {x}))

\* end (start + duration) of the chunks scheduled on context ctx that no
\* interruption or teardown has stopped; 0 when there is none
PrevEnd(ctx) ==
    MaxOf({chunks[i].startAt + Duration(chunks[i].bytes) :
              i \in {j \in DOMAIN chunks : /\ chunks[j].st = "started"
                                            /\ chunks[j].ctx = ctx
                                            /\ ~chunks[j].stopped}})

\* first instant at which a started source has played its whole buffer
EndTime(ch) == Max(ch.startAt, ch.startClock) + Duration(ch.bytes)

\* the chunk before this one is playing on ctx when this one arrives
BackToBack(ctx) ==
    /\ chunks # <<>>
    /\ LET prev == chunks[Len(chunks)]
       IN /\ prev.st = "started"
          /\ ~prev.stopped /\ ~prev.ended
          /\ prev.ctx = ctx
          /\ clock[ctx] < EndTime(prev)

\* the interruption (lines 167-172) of some earlier message that also
\* carried audio has run
AfterInterruption ==
    \E i \in DOMAIN chunks : chunks[i].intr /\ chunks[i].st = "started"

\* an audio message as onmessage finds it; afterError records whether the
\* session the modal shows had made an Error transition when it arrived,
\* backToBack whether the chunk before it was playing, afterIntr whether
\* an interruption had been handled
NewChunk(s, ctx, bytes, intr) ==
    [sess |-> s, ctx |-> ctx, bytes |-> bytes, intr |-> intr,
     st |-> "decoding", startAt |-> 0, startClock |-> 0, prevEnd |-> 0,
     stopped |-> FALSE, ended |-> FALSE, stale |-> FALSE,
     afterError |-> InError(NumAttempts),
     backToBack |-> BackToBack(ctx), afterIntr |-> AfterInterruption]

\* ---- what a callback of the live session can read and write
HandlerState ==
    [audio |-> AudioState, nextStartTimeRef |-> nextStartTimeRef,
     error |-> error]

\* the interruption without sourcesRef.current.clear() of line 169
interrupt_KeepsSet(h) ==
    [h EXCEPT
        !.audio.chunks = Interrupted(h.audio.chunks, h.audio.sourcesRef),
        !.nextStartTimeRef = 0,
        !.audio.isAIResponding = FALSE]

\* lines 167-172: handle interruption
interrupt(h) ==
    [h EXCEPT
        !.audio.chunks = Interrupted(h.audio.chunks, h.audio.sourcesRef),
        !.audio.sourcesRef = {},
        !.nextStartTimeRef = 0,
        !.audio.isAIResponding = FALSE]

\* onmessage taking a message without audio and without interruption for
\* the end of the model's turn
onmessage_ClearsFlag(h, s, bytes, intr) ==
    IF bytes # 0 /\ h.audio.outputAudioContextRef # Null
    THEN [h EXCEPT
             !.audio.isAIResponding = TRUE,
             !.nextStartTimeRef =
                 StartAt(h.nextStartTimeRef,
                         clock[h.audio.outputAudioContextRef]),
             !.audio.chunks =
                 Append(h.audio.chunks,
                        NewChunk(s, h.audio.outputAudioContextRef,
                                 bytes, intr))]
    ELSE IF intr THEN interrupt(h)
    ELSE [h EXCEPT !.audio.isAIResponding = FALSE]

\* lines 135-173, up to the await of line 145 or, without audio, to the end
onmessage(h, s, bytes, intr) ==
    IF bytes # 0 /\ h.audio.outputAudioContextRef # Null
    THEN [h EXCEPT
             !.audio.isAIResponding = TRUE,
             !.nextStartTimeRef =
                 StartAt(h.nextStartTimeRef,
                         clock[h.audio.outputAudioContextRef]),
             !.audio.chunks =
                 Append(h.audio.chunks,
                        NewChunk(s, h.audio.outputAudioContextRef,
                                 bytes, intr))]
    ELSE IF intr THEN interrupt(h)
    ELSE h

\* ---- useEffect([isOpen]), isOpen false -> true: the cleanup returned by
\* the previous run, then connectToLiveAPI up to its await
OpenModal ==
    /\ UNCHANGED <<captureVars, noteVars, recVars>>
    /\ ~isOpen
    /\ NumAttempts < MaxAttempts
    /\ NumAttempts + Len(chunks) <= MaxChunks
    /\ isOpen' = TRUE
    /\ LET s == NumAttempts + 1
           a == cleanupAudio(AudioState)
       IN IF ~apiKey
          THEN /\ error' = ErrMic
               /\ pc' = [pc EXCEPT ![s] = "failed"]
               /\ SetAudioState(a)
               /\ UNCHANGED contextSummary
          ELSE /\ error' = ErrNone
               /\ pc' = [pc EXCEPT ![s] = "awaitMic"]
               /\ contextSummary' = ContextOf(notes)
               /\ SetAudioState([a EXCEPT
                      !.inputAudioContextRef = s,
                      !.outputAudioContextRef = s,
                      !.inCtxOpen = a.inCtxOpen \cup {s},
                      !.outCtxOpen = a.outCtxOpen \cup {s}])
    /\ UNCHANGED <<apiKey, nextStartTimeRef, sessionRef, chan, procCtx,
                   clock, cancelled>>

\* ---- useEffect([isOpen]), isOpen true -> false: the cleanup returned by
\* the previous run, then the else branch
CloseModal ==
    /\ UNCHANGED <<captureVars, contextSummary, noteVars, recVars>>
    /\ isOpen
    /\ isOpen' = FALSE
    /\ SetAudioState(cleanupAudio(cleanupAudio(AudioState)))
    /\ cancelled' = cancelled \cup {s \in Attempts : pc[s] = "awaitMic"}
    /\ UNCHANGED <<apiKey, error, nextStartTimeRef, sessionRef, pc, chan,
                   procCtx, clock>>

\* ---- connectToLiveAPI after getUserMedia resolved: lines 92-186
GetUserMediaResolved(s) ==
    /\ UNCHANGED <<releaseCalls, captureVars, contextSummary, noteVars,
                   recVars>>
    /\ pc[s] = "awaitMic"
    /\ streamRef' = s
    /\ liveStreams' = liveStreams \cup {s}
    /\ chan' = [chan EXCEPT ![s] = "connecting"]
    /\ sessionRef' = s
    /\ pc' = [pc EXCEPT ![s] = "done"]
    /\ UNCHANGED <<isOpen, apiKey, isConnected, isSpeaking, isAIResponding,
                   error, inputAudioContextRef, outputAudioContextRef,
                   processorRef, sourceRef, nextStartTimeRef, sourcesRef,
                   inCtxOpen, outCtxOpen, procConnected, procCtx, clock,
                   chunks, cancelled>>

\* a connectToLiveAPI whose try block covers getUserMedia alone: the message
\* is set and the function goes on to connect without a stream
GetUserMediaRejected_Connects(s) ==
    /\ UNCHANGED <<releaseCalls, captureVars, contextSummary, noteVars,
                   recVars>>
    /\ pc[s] = "awaitMic"
    /\ error' = ErrMic
    /\ pc' = [pc EXCEPT ![s] = "failed"]
    /\ chan' = [chan EXCEPT ![s] = "connecting"]
    /\ sessionRef' = s
    /\ UNCHANGED <<isOpen, apiKey, isConnected, isSpeaking, isAIResponding,
                   inputAudioContextRef, outputAudioContextRef, streamRef,
                   processorRef, sourceRef, nextStartTimeRef, sourcesRef,
                   inCtxOpen, outCtxOpen, liveStreams,
                   procConnected, procCtx, clock, chunks, cancelled>>

\* ---- connectToLiveAPI after getUserMedia rejected: lines 188-191
GetUserMediaRejected(s) ==
    /\ UNCHANGED <<releaseCalls, captureVars, contextSummary, noteVars,
                   recVars>>
    /\ pc[s] = "awaitMic"
    /\ error' = ErrMic
    /\ pc' = [pc EXCEPT ![s] = "failed"]
    /\ UNCHANGED <<isOpen, apiKey, isConnected, isSpeaking, isAIResponding,
                   inputAudioContextRef, outputAudioContextRef, streamRef,
                   processorRef, sourceRef, nextStartTimeRef, sourcesRef,
                   sessionRef, chan, inCtxOpen, outCtxOpen, liveStreams,
                   procConnected, procCtx, clock, chunks, cancelled>>

\* ---- callbacks.onopen of channel s
OnOpen(s) ==
    /\ UNCHANGED <<releaseCalls, captureVars, contextSummary, noteVars,
                   recVars>>
    /\ chan[s] = "connecting"
    /\ chan' = [chan EXCEPT ![s] = "open"]
    /\ isConnected' = TRUE
    /\ IF inputAudioContextRef = Null \/ streamRef = Null
       THEN UNCHANGED <<sourceRef, processorRef, procCtx, procConnected>>
       ELSE /\ sourceRef' = s
            /\ processorRef' = s
            /\ procCtx' = [procCtx EXCEPT ![s] = inputAudioContextRef]
            /\ procConnected' = procConnected \cup {s}
    /\ UNCHANGED <<isOpen, apiKey, isSpeaking, isAIResponding, error,
                   inputAudioContextRef, outputAudioContextRef, streamRef,
                   nextStartTimeRef, sourcesRef, sessionRef, pc, inCtxOpen,
                   outCtxOpen, liveStreams, clock, chunks, cancelled>>

\* ---- callbacks.onmessage of channel s, up to its await or to its end
OnMessage(s, bytes, intr) ==
    /\ UNCHANGED <<captureVars, contextSummary, noteVars, recVars>>
    /\ chan[s] = "open"
    /\ (bytes # 0 /\ outputAudioContextRef # Null)
           => NumAttempts + Len(chunks) <= MaxChunks
    /\ LET h == onmessage(HandlerState, s, bytes, intr)
       IN /\ SetAudioState(h.audio)
          /\ nextStartTimeRef' = h.nextStartTimeRef
          /\ error' = h.error
    /\ UNCHANGED <<isOpen, apiKey, sessionRef, pc, chan, procCtx, clock,
                   cancelled>>

\* DecodeDone with a decode failure treated as a failure of the session
DecodeDone_Fatal(c) ==
    /\ UNCHANGED <<releaseCalls, captureVars, contextSummary, noteVars,
                   recVars>>
    /\ c \in DOMAIN chunks
    /\ chunks[c].st = "decoding"
    /\ IF DecodeFails(chunks[c].bytes)
       THEN /\ chunks' = [chunks EXCEPT ![c].st = "failed"]
            /\ error' = ErrConn
            /\ isConnected' = FALSE
            /\ UNCHANGED <<sourcesRef, nextStartTimeRef, isAIResponding>>
       ELSE LET ch == chunks[c]
                cs == [chunks EXCEPT ![c] =
                          Started(ch, nextStartTimeRef, clock[ch.ctx],
                                  PrevEnd(ch.ctx))]
            IN IF ch.intr
               THEN /\ chunks' = Interrupted(cs, sourcesRef \cup {c})
                    /\ sourcesRef' = {}
                    /\ nextStartTimeRef' = 0
                    /\ isAIResponding' = FALSE
                    /\ UNCHANGED <<error, isConnected>>
               ELSE /\ chunks' = cs
                    /\ sourcesRef' = sourcesRef \cup {c}
                    /\ nextStartTimeRef' =
                           nextStartTimeRef + Duration(ch.bytes)
                    /\ UNCHANGED <<isAIResponding, error, isConnected>>
    /\ UNCHANGED <<isOpen, apiKey, isSpeaking,
                   inputAudioContextRef, outputAudioContextRef, streamRef,
                   processorRef, sourceRef, sessionRef, pc, chan, inCtxOpen,
                   outCtxOpen, liveStreams, procConnected, procCtx, clock,
                   cancelled>>

\* ---- callbacks.onmessage after its await: lines 152-172; the decode
\* completes in a later callback, so other callbacks may run in between
DecodeDone(c) ==
    /\ UNCHANGED <<releaseCalls, captureVars, contextSummary, noteVars,
                   recVars>>
    /\ c \in DOMAIN chunks
    /\ chunks[c].st = "decoding"
    /\ IF DecodeFails(chunks[c].bytes)
       THEN /\ chunks' = [chunks EXCEPT ![c].st = "failed"]
            /\ UNCHANGED <<sourcesRef, nextStartTimeRef, isAIResponding>>
       ELSE LET ch == chunks[c]
                cs == [chunks EXCEPT ![c] =
                          Started(ch, nextStartTimeRef, clock[ch.ctx],
                                  PrevEnd(ch.ctx))]
            IN IF ch.intr
               THEN /\ chunks' = Interrupted(cs, sourcesRef \cup {c})
                    /\ sourcesRef' = {}
                    /\ nextStartTimeRef' = 0
                    /\ isAIResponding' = FALSE
               ELSE /\ chunks' = cs
                    /\ sourcesRef' = sourcesRef \cup {c}
                    /\ nextStartTimeRef' =
                           nextStartTimeRef + Duration(ch.bytes)
                    /\ UNCHANGED isAIResponding
    /\ UNCHANGED <<isOpen, apiKey, isConnected, isSpeaking, error,
                   inputAudioContextRef, outputAudioContextRef, streamRef,
                   processorRef, sourceRef, sessionRef, pc, chan, inCtxOpen,
                   outCtxOpen, liveStreams, procConnected, procCtx, clock,
                   cancelled>>

\* ---- the 'ended' listener of source c: lines 156-159
Ended(c) ==
    /\ UNCHANGED <<releaseCalls, captureVars, contextSummary, noteVars,
                   recVars>>
    /\ c \in DOMAIN chunks
    /\ chunks[c].st = "started"
    /\ ~chunks[c].ended
    /\ chunks[c].ctx \in outCtxOpen
    /\ chunks[c].stopped \/ clock[chunks[c].ctx] >= EndTime(chunks[c])
    /\ chunks' = [chunks EXCEPT ![c].ended = TRUE]
    /\ sourcesRef' = sourcesRef \ {c}
    /\ isAIResponding' = IF sourcesRef \ {c} = {} THEN FALSE ELSE isAIResponding
    /\ UNCHANGED <<isOpen, apiKey, isConnected, isSpeaking, error,
                   inputAudioContextRef, outputAudioContextRef, streamRef,
                   processorRef, sourceRef, nextStartTimeRef, sessionRef, pc,
                   chan, inCtxOpen, outCtxOpen, liveStreams, procConnected,
                   procCtx, clock, cancelled>>

\* ---- callbacks.onclose of channel s
OnClose(s) ==
    /\ UNCHANGED <<releaseCalls, captureVars, contextSummary, noteVars,
                   recVars>>
    /\ chan[s] \in {"open", "error"}
    /\ chan' = [chan EXCEPT ![s] = IF chan[s] = "open" THEN "closed"
                                                       ELSE "errorClosed"]
    /\ isConnected' = FALSE
    /\ UNCHANGED <<isOpen, apiKey, isSpeaking, isAIResponding, error,
                   inputAudioContextRef, outputAudioContextRef, streamRef,
                   processorRef, sourceRef, nextStartTimeRef, sourcesRef,
                   sessionRef, pc, inCtxOpen, outCtxOpen, liveStreams,
                   procConnected, procCtx, clock, chunks, cancelled>>

\* ---- callbacks.onerror of channel s
OnError(s) ==
    /\ UNCHANGED <<releaseCalls, captureVars, contextSummary, noteVars,
                   recVars>>
    /\ chan[s] \in {"connecting", "open"}
    /\ chan' = [chan EXCEPT ![s] = "error"]
    /\ error' = ErrConn
    /\ isConnected' = FALSE
    /\ UNCHANGED <<isOpen, apiKey, isSpeaking, isAIResponding,
                   inputAudioContextRef, outputAudioContextRef, streamRef,
                   processorRef, sourceRef, nextStartTimeRef, sourcesRef,
                   sessionRef, pc, inCtxOpen, outCtxOpen, liveStreams,
                   procConnected, procCtx, clock, chunks, cancelled>>

\* ---- the clocks of the running output contexts advance by one period
Tick ==
    /\ UNCHANGED <<releaseCalls, captureVars, contextSummary, noteVars,
                   recVars>>
    /\ \E s \in outCtxOpen : clock[s] < MaxTime
    /\ clock' = [s \in Attempts |->
                    IF s \in outCtxOpen /\ clock[s] < MaxTime
                    THEN clock[s] + 1 ELSE clock[s]]
    /\ UNCHANGED <<isOpen, apiKey, isConnected, isSpeaking, isAIResponding,
                   error, inputAudioContextRef, outputAudioContextRef,
                   streamRef, processorRef, sourceRef, nextStartTimeRef,
                   sourcesRef, sessionRef, pc, chan, inCtxOpen, outCtxOpen,
                   liveStreams, procConnected, procCtx, chunks, cancelled>>

\* ---- processor.onaudioprocess of the processor made by onopen of p. On
\* a resolved promise the then-callback runs in a microtask, before any
\* later tick, so the send is part of this step
CaptureTick(p, inputData) ==
    /\ p \in procConnected
    /\ procCtx[p] \in inCtxOpen
    /\ nTicks < MaxTicks
    /\ nTicks' = nTicks + 1
    /\ lastBlock' = inputData
    /\ isSpeaking' = VadSpeaking(inputData)
    /\ IF p \in sessionResolved
       THEN /\ sent' = Append(sent, Frame(p, nTicks + 1, FALSE))
            /\ UNCHANGED pendingSends
       ELSE /\ pendingSends' = [pendingSends EXCEPT
                                   ![p] = Append(@, Frame(p, nTicks + 1,
                                                          TRUE))]
            /\ UNCHANGED sent
    /\ UNCHANGED <<isOpen, apiKey, isConnected, isAIResponding, error,
                   inputAudioContextRef, outputAudioContextRef, streamRef,
                   processorRef, sourceRef, nextStartTimeRef, sourcesRef,
                   sessionRef, pc, chan, inCtxOpen, outCtxOpen, liveStreams,
                   procConnected, procCtx, clock, chunks, cancelled,
                   releaseCalls, sessionResolved, contextSummary, noteVars,
                   recVars>>

\* ---- sessionPromise of p resolves, after onopen: the then-callbacks
\* registered by the ticks so far run
SessionResolved(p) ==
    /\ chan[p] \in {"open", "closed"}
    /\ p \notin sessionResolved
    /\ sessionResolved' = sessionResolved \cup {p}
    /\ sent' = FlushThen(sent, pendingSends[p])
    /\ pendingSends' = [pendingSends EXCEPT ![p] = <<>>]
    /\ UNCHANGED <<isOpen, apiKey, isConnected, isSpeaking, isAIResponding,
                   error, inputAudioContextRef, outputAudioContextRef,
                   streamRef, processorRef, sourceRef, nextStartTimeRef,
                   sourcesRef, sessionRef, pc, chan, inCtxOpen, outCtxOpen,
                   liveStreams, procConnected, procCtx, clock, chunks,
                   cancelled, releaseCalls, nTicks, lastBlock,
                   contextSummary, noteVars, recVars>>

(***************************************************************************)
(* App.tsx: the note list, the weekly report, the hold-to-record button   *)
(***************************************************************************)
\* everything of the voice chat modal
modalVars == <<isOpen, apiKey, isConnected, isSpeaking, isAIResponding, error,
               inputAudioContextRef, outputAudioContextRef, streamRef,
               processorRef, sourceRef, nextStartTimeRef, sourcesRef,
               sessionRef, pc, chan, inCtxOpen, outCtxOpen, liveStreams,
               procConnected, procCtx, clock, chunks, cancelled,
               releaseCalls, captureVars, contextSummary>>

\* the new note in the place of the newest one
Prepend_Replace(n, ns) == IF ns = <<>> THEN <<n>> ELSE <<n>> \o Tail(ns)

\* lines 161 and 196: [newNote, ...prev]
Prepend(n, ns) == <<n>> \o ns

\* the note made from a classification result: the notes are numbered in
\* the order they were made
NewNote(ns) == Len(ns) + 1

\* ---- handleSend up to its await: lines 171-184 (the input is not empty)
HandleSend ==
    /\ nClassify < MaxSends
    /\ nClassify' = nClassify + 1
    /\ isProcessing' = TRUE
    /\ textInFlight' = textInFlight + 1
    /\ UNCHANGED <<notes, isGeneratingReport, reportInFlight, weeklyReport,
                   nReports, recVars, modalVars>>

\* ---- handleSend after classifyContent resolved: lines 186-209
ClassifyResolved ==
    /\ textInFlight > 0
    /\ textInFlight' = textInFlight - 1
    /\ notes' = Prepend(NewNote(notes), notes)
    /\ isProcessing' = FALSE
    /\ UNCHANGED <<nClassify, isGeneratingReport, reportInFlight,
                   weeklyReport, nReports, recVars, modalVars>>

\* ---- handleSend after classifyContent rejected: lines 202-208
ClassifyRejected ==
    /\ textInFlight > 0
    /\ textInFlight' = textInFlight - 1
    /\ isProcessing' = FALSE
    /\ UNCHANGED <<notes, nClassify, isGeneratingReport, reportInFlight,
                   weeklyReport, nReports, recVars, modalVars>>

\* ---- handleGenerateReport up to its await: lines 212-217
HandleGenerateReport ==
    /\ notes # <<>>
    /\ nReports < MaxReports
    /\ nReports' = nReports + 1
    /\ isGeneratingReport' = TRUE
    /\ reportInFlight' = reportInFlight + 1
    /\ UNCHANGED <<notes, isProcessing, textInFlight, nClassify,
                   weeklyReport, recVars, modalVars>>

\* ---- handleGenerateReport after generateWeeklyReport settled: lines
\* 218-223; the report of call k is called k
ReportSettled(ok) ==
    /\ reportInFlight > 0
    /\ reportInFlight' = reportInFlight - 1
    /\ weeklyReport' = IF ok THEN nReports ELSE weeklyReport
    /\ isGeneratingReport' = FALSE
    /\ UNCHANGED <<notes, isProcessing, textInFlight, nClassify, nReports,
                   recVars, modalVars>>

NumPresses == Cardinality({p \in Presses : rec[p] # "idle"})

\* ---- onMouseDown / onTouchStart: startRecording up to its await, line
\* 102
StartRecording ==
    /\ NumPresses < MaxPresses
    /\ rec' = [rec EXCEPT ![NumPresses + 1] = "awaitMic"]
    /\ held' = TRUE
    /\ UNCHANGED <<isRecording, mediaRecorderRef, micLive, noteVars,
                   modalVars>>

\* ---- startRecording after getUserMedia resolved: lines 103-114
MicResolved(p) ==
    /\ rec[p] = "awaitMic"
    /\ micLive' = micLive \cup {p}
    /\ mediaRecorderRef' = p
    /\ rec' = [rec EXCEPT ![p] = "recording"]
    /\ isRecording' = TRUE
    /\ UNCHANGED <<held, noteVars, modalVars>>

\* ---- startRecording after getUserMedia rejected: lines 115-118
MicRejected(p) ==
    /\ rec[p] = "awaitMic"
    /\ rec' = [rec EXCEPT ![p] = "denied"]
    /\ UNCHANGED <<isRecording, mediaRecorderRef, micLive, held, noteVars,
                   modalVars>>

\* ---- onMouseUp / onTouchEnd: stopRecording, lines 121-133; stop() on a
\* recorder that is not recording throws and changes nothing
StopRecording ==
    /\ held
    /\ held' = FALSE
    /\ IF mediaRecorderRef # Null /\ isRecording
          /\ rec[mediaRecorderRef] = "recording"
       THEN rec' = [rec EXCEPT ![mediaRecorderRef] = "stopping"]
       ELSE UNCHANGED rec
    /\ UNCHANGED <<isRecording, mediaRecorderRef, micLive, noteVars,
                   modalVars>>

\* ---- the stop event of recorder r: onstop up to the await inside
\* handleSendAudio, lines 123-146
OnStop(r) ==
    /\ rec[r] = "stopping"
    /\ rec' = [rec EXCEPT ![r] = "sending"]
    /\ isProcessing' = TRUE
    /\ UNCHANGED <<isRecording, mediaRecorderRef, micLive, held, notes,
                   textInFlight, nClassify, isGeneratingReport,
                   reportInFlight, weeklyReport, nReports, modalVars>>

\* ---- handleSendAudio after classifyContent settled, lines 148-167, and
\* the rest of onstop, lines 127-129
AudioClassified(r, ok) ==
    /\ rec[r] = "sending"
    /\ rec' = [rec EXCEPT ![r] = "done"]
    /\ notes' = IF ok THEN Prepend(NewNote(notes), notes) ELSE notes
    /\ isProcessing' = FALSE
    /\ micLive' = micLive \ {mediaRecorderRef}
    /\ isRecording' = FALSE
    /\ UNCHANGED <<mediaRecorderRef, held, textInFlight, nClassify,
                   isGeneratingReport, reportInFlight, weeklyReport,
                   nReports, modalVars>>

Next ==
    \/ OpenModal
    \/ CloseModal
    \/ \E s \in Attempts : GetUserMediaResolved(s)
    \/ \E s \in Attempts : GetUserMediaRejected(s)
    \/ \E s \in Attempts : OnOpen(s)
    \/ \E s \in Attempts, bytes \in 0..MaxBytes, intr \in BOOLEAN :
           OnMessage(s, bytes, intr)
    \/ \E c \in 1..MaxChunks : DecodeDone(c)
    \/ \E c \in 1..MaxChunks : Ended(c)
    \/ \E s \in Attempts : OnClose(s)
    \/ \E s \in Attempts : OnError(s)
    \/ Tick

Spec == Init /\ [][Next]_vars

\* ---- the session lifecycle alone: no inbound message is delivered
NextSession ==
    \/ OpenModal
    \/ CloseModal
    \/ \E s \in Attempts : GetUserMediaResolved(s)
    \/ \E s \in Attempts : GetUserMediaRejected(s)
    \/ \E s \in Attempts : OnOpen(s)
    \/ \E s \in Attempts : OnClose(s)
    \/ \E s \in Attempts : OnError(s)

SpecSession == Init /\ [][NextSession]_vars

\* ---- the playback timeline alone: the first session is Open (the modal
\* was opened, getUserMedia resolved and onopen ran) and stays Open
InitOpenSession ==
    /\ isOpen = TRUE
    /\ apiKey = TRUE
    /\ isConnected = TRUE
    /\ isSpeaking = FALSE
    /\ isAIResponding = FALSE
    /\ error = ErrNone
    /\ inputAudioContextRef = 1
    /\ outputAudioContextRef = 1
    /\ streamRef = 1
    /\ processorRef = 1
    /\ sourceRef = 1
    /\ nextStartTimeRef = 0
    /\ sourcesRef = {}
    /\ sessionRef = 1
    /\ pc = [s \in Attempts |-> IF s = 1 THEN "done" ELSE "idle"]
    /\ chan = [s \in Attempts |-> IF s = 1 THEN "open" ELSE "none"]
    /\ inCtxOpen = {1}
    /\ outCtxOpen = {1}
    /\ liveStreams = {1}
    /\ procConnected = {1}
    /\ procCtx = [s \in Attempts |-> IF s = 1 THEN 1 ELSE Null]
    /\ clock = [s \in Attempts |-> 0]
    /\ chunks = <<>>
    /\ cancelled = {}
    /\ releaseCalls = [s \in Attempts |-> [stream |-> 0, inCtx |-> 0, outCtx |-> 0]]
    /\ sessionResolved = {}
    /\ pendingSends = [s \in Attempts |-> <<>>]
    /\ sent = <<>>
    /\ nTicks = 0
    /\ lastBlock = <<>>
    /\ AppStarted(<<>>)

NextTimeline ==
    \/ \E s \in Attempts, bytes \in 0..MaxBytes, intr \in BOOLEAN :
           OnMessage(s, bytes, intr)
    \/ \E c \in 1..MaxChunks : DecodeDone(c)
    \/ \E c \in 1..MaxChunks : Ended(c)
    \/ Tick

SpecTimeline == InitOpenSession /\ [][NextTimeline]_vars

\* ---- opening, closing and messages, at one instant of the output
\* clocks and with channels that stay up: what teardown has to undo. A
\* message carries no audio, part of a sample or one whole sample
NextTeardown ==
    \/ OpenModal
    \/ CloseModal
    \/ \E s \in Attempts : GetUserMediaResolved(s)
    \/ \E s \in Attempts : OnOpen(s)
    \/ \E s \in Attempts, bytes \in 0..BytesPerSample, intr \in BOOLEAN :
           OnMessage(s, bytes, intr)
    \/ \E c \in 1..MaxChunks : DecodeDone(c)

SpecTeardown == Init /\ [][NextTeardown]_vars

\* ---- the message handlers alone, at one instant of the output clock:
\* the first session is Open and stays so
NextMessages ==
    \/ \E s \in Attempts, bytes \in 0..MaxBytes, intr \in BOOLEAN :
           OnMessage(s, bytes, intr)
    \/ \E c \in 1..MaxChunks : DecodeDone(c)
    \/ \E c \in 1..MaxChunks : Ended(c)

SpecMessages == InitOpenSession /\ [][NextMessages]_vars

\* ---- the note list and the context built from it: the app starts with
\* notes in local storage
NextContext ==
    \/ HandleSend
    \/ ClassifyResolved
    \/ ClassifyRejected
    \/ OpenModal
    \/ CloseModal

SpecContext == InitLoaded /\ [][NextContext]_vars

\* ---- the hold-to-record button alone
NextRecord ==
    \/ StartRecording
    \/ StopRecording
    \/ \E p \in Presses : MicResolved(p)
    \/ \E p \in Presses : MicRejected(p)
    \/ \E r \in Presses : OnStop(r)
    \/ \E r \in Presses, ok \in BOOLEAN : AudioClassified(r, ok)

SpecRecord == Init /\ [][NextRecord]_vars

\* ---- every operation of the App that comes near the note list, with one
\* voice note
NextNotes ==
    \/ HandleSend
    \/ ClassifyResolved
    \/ ClassifyRejected
    \/ HandleGenerateReport
    \/ \E ok \in BOOLEAN : ReportSettled(ok)
    \/ NumPresses = 0 /\ StartRecording
    \/ StopRecording
    \/ MicResolved(1)
    \/ MicRejected(1)
    \/ OnStop(1)
    \/ \E ok \in BOOLEAN : AudioClassified(1, ok)
    \/ OpenModal
    \/ CloseModal

SpecNotes == Init /\ [][NextNotes]_vars

\* ---- opening and closing the modal with the capture pipeline, with
\* channels that stay up
NextReopen ==
    \/ OpenModal
    \/ CloseModal
    \/ \E s \in Attempts : GetUserMediaResolved(s)
    \/ \E s \in Attempts : OnOpen(s)
    \/ \E p \in Attempts, inputData \in Blocks : CaptureTick(p, inputData)
    \/ \E p \in Attempts : SessionResolved(p)

SpecReopen == Init /\ [][NextReopen]_vars

\* ---- the capture pipeline alone: the first session is Open, its
\* sessionPromise not yet resolved; the user may end the call
NextCapture ==
    \/ \E p \in Attempts, inputData \in Blocks : CaptureTick(p, inputData)
    \/ \E p \in Attempts : SessionResolved(p)
    \/ CloseModal

SpecCapture == InitOpenSession /\ [][NextCapture]_vars

(***************************************************************************)
(* The claims                                                              *)
(***************************************************************************)
Idx == DOMAIN chunks

\* processor s delivers capture ticks: it is connected and its context runs
Ticking(s) == s \in procConnected /\ procCtx[s] \in inCtxOpen

\* nothing that attempt s acquired or started is still held
Released(s) ==
    /\ s \notin liveStreams
    /\ s \notin inCtxOpen
    /\ s \notin outCtxOpen
    /\ ~Ticking(s)
    /\ \A i \in sourcesRef : chunks[i].sess # s

\* C1: once an interruption has been processed, no chunk whose message
\* arrived before it is started afterwards, and no source that was stopped
\* is a member of the active set. Stated as the claim has it; the code
\* starts a chunk whose decode was pending when the interruption ran.
C1_NoAudioFromBeforeInterruption ==
    \A i \in Idx :
        /\ chunks[i].stale => chunks[i].st # "started"
        /\ chunks[i].stopped => i \notin sourcesRef

\* C2: every chunk is started no earlier than the clock of its output
\* context at the call of source.start and no earlier than the end of the
\* chunk scheduled before it. Stated as the claim has it; the code takes
\* the clock before the decode and starts the chunk after it.
C2_StartNotBeforeClockNorPrevEnd ==
    \A i \in Idx :
        chunks[i].st = "started" =>
            /\ chunks[i].startAt >= chunks[i].startClock
            /\ chunks[i].startAt >= chunks[i].prevEnd

\* C3: chunks are scheduled in the order their messages arrived: of two
\* chunks of one timeline (same output context, the earlier one not stopped
\* by an interruption) the one that arrived first starts first. Stated as
\* the claim has it; the code schedules in the order the decodes complete.
C3_ScheduledInArrivalOrder ==
    \A i, j \in Idx :
        ( /\ i < j
          /\ chunks[i].st = "started" /\ chunks[j].st = "started"
          /\ chunks[i].ctx = chunks[j].ctx
          /\ ~chunks[i].stopped )
        => chunks[i].startAt <= chunks[j].startAt

\* C4: a session that reached Open in the regular way (the modal was not
\* closed while it awaited the microphone) and whose channel was then closed
\* by the remote agent holds no device handle, no running capture processor
\* and no playing source. Stated as the claim has it; onclose only clears
\* the connected flag.
C4_RemoteCloseTearsDown ==
    \A s \in Attempts :
        (chan[s] = "closed" /\ s \notin cancelled) => Released(s)

\* C5: the step in which onerror of a session runs leaves that session torn
\* down as on Closed, sets the one error message and starts no new
\* connection. Stated as the claim has it; onerror releases nothing.
C5_ChannelErrorTearsDown ==
    [][ \A s \in Attempts :
          (chan[s] # "error" /\ chan'[s] = "error") =>
              /\ Released(s)'
              /\ error' = ErrConn
              /\ ~isConnected'
              /\ pc' = pc
              /\ \A t \in Attempts : t # s => chan'[t] = chan[t] ]_vars

C7_OneOwnerOfTheDevices ==
    /\ Cardinality(liveStreams) <= 1
    /\ Cardinality({s \in Attempts : Ticking(s)}) <= 1
    /\ Cardinality({inputAudioContextRef, outputAudioContextRef,
                    streamRef, processorRef} \ {Null}) <= 1

\* C8: an attempt that was awaiting the microphone when the modal was
\* closed holds, once its getUserMedia has settled, no microphone stream
\* and no audio context, and no channel was opened for it. Stated as the
\* claim has it; the continuation stores the stream and connects.
C8_CancelReleasesDevices ==
    \A s \in cancelled :
        pc[s] # "awaitMic" =>
            /\ s \notin liveStreams
            /\ s \notin inCtxOpen
            /\ s \notin outCtxOpen
            /\ chan[s] = "none"

\* C9: an attempt that ended in the catch block (getUserMedia rejected, or
\* no API key) never has a channel, never runs onopen and never starts a
\* capture processor or holds a stream, and the step into the catch block
\* leaves the error message set.
C9_FailedAttemptNeverOpens ==
    /\ [](\A s \in Attempts :
            pc[s] = "failed" =>
                /\ chan[s] = "none"
                /\ procCtx[s] = Null
                /\ s \notin procConnected
                /\ s \notin liveStreams)
    /\ [][ \A s \in Attempts :
             (pc[s] # "failed" /\ pc'[s] = "failed") => error' = ErrMic ]_vars

\* a rejected getUserMedia has been handled and its message is shown
C9_Witness ==
    \E s \in Attempts :
        /\ apiKey
        /\ pc[s] = "failed"
        /\ error = ErrMic

\* C10: the step that handles a device error (the catch block) or a channel
\* error (onerror) leaves nothing held that the attempt acquired. Stated
\* as the claim has it; neither handler releases anything.
C10_ErrorReleasesAll ==
    [][ \A s \in Attempts :
          ( \/ pc[s] # "failed" /\ pc'[s] = "failed"
            \/ chan[s] # "error" /\ chan'[s] = "error" )
          => Released(s)' ]_vars

\* the user has ended session s: the modal is closed, or a later attempt
\* exists (an attempt starts only from a closed modal)
UserClosed(s) == pc[s] # "none" /\ (s < NumAttempts \/ ~isOpen)

\* session s has been closed by the user or by the remote agent, or has
\* errored
Terminal(s) ==
    \/ UserClosed(s)
    \/ chan[s] \in {"closed", "error", "errorClosed"}
    \/ pc[s] = "failed"

\* C11: no callback of a session that is closed or has errored sets the
\* connected flag, starts a capture processor, takes a new chunk for
\* playback or starts one. Stated as the claim has it; onopen of a channel
\* whose modal the user has closed still sets isConnected.
C11_TerminalSessionStaysTerminal ==
    [][ \A s \in Attempts :
          Terminal(s) =>
            /\ (chan[s] = "connecting" /\ chan'[s] = "open")
                   => (isConnected' = isConnected /\ ~Ticking(s)')
            /\ Len(chunks') > Len(chunks)
                   => chunks'[Len(chunks')].sess # s
            /\ \A i \in Idx :
                   (chunks[i].sess = s /\ chunks[i].st = "decoding")
                       => chunks'[i].st # "started" ]_vars

\* C12: when onopen of the session the modal shows has run, nextStartTime
\* is zero and the active set is empty; it suffices to look at runs in
\* which every chunk so far was started by the session that owned the
\* output context and stopped by the teardown of that session. Stated as the claim has it; neither onopen nor
\* cleanupAudio resets nextStartTimeRef, so a second session inherits the
\* value the first one left.
C12_OpenResetsTimeline ==
    [][ \A s \in Attempts :
          ( /\ chan[s] = "connecting" /\ chan'[s] = "open"
            /\ isOpen /\ s = NumAttempts
            /\ \A i \in Idx : /\ chunks[i].ctx = chunks[i].sess
                              /\ chunks[i].st = "started"
                              /\ chunks[i].stopped )
          => (nextStartTimeRef' = 0 /\ sourcesRef' = {}) ]_vars

\* chunk i goes from decoded to started in this step
Starts(i) == chunks[i].st = "decoding" /\ chunks'[i].st = "started"

\* the instant at which a started source begins to sound: a start time in
\* the past means now
PlayStart(ch) == Max(ch.startAt, ch.startClock)

\* C13: a chunk that arrived while the chunk before it was playing, with no
\* interruption in between, and that is started before that chunk ends,
\* begins to sound exactly when that chunk ends. Stated as the claim has
\* it; the chunk before may have been started in the past (see C2), so its
\* sound ends later than nextStartTimeRef says and the two overlap.
C13_GaplessBackToBack ==
    [][ \A i \in Idx :
          ( /\ Starts(i)
            /\ chunks[i].backToBack
            /\ ~chunks[i].stale /\ ~chunks[i].intr
            /\ ~chunks[i - 1].stopped /\ ~chunks[i - 1].ended )
          => PlayStart(chunks'[i]) = EndTime(chunks[i - 1]) ]_vars

\* an interruption is handled in this step: it stops a source, overtakes a
\* pending decode, or belongs to the message whose chunk is being started
InterruptionStep ==
    \E i \in Idx :
        \/ ~chunks[i].stopped /\ chunks'[i].stopped
        \/ ~chunks[i].stale /\ chunks'[i].stale
        \/ chunks[i].intr /\ Starts(i)

\* C14: right after an interruption the active set is empty and
\* nextStartTime is zero, and a chunk whose message arrived after an
\* interruption is started at or after the output clock of that moment.
\* Stated as the claim has it; the first half holds, the second fails
\* because the clock is read before the decode (see C2).
C14_FreshTimelineAfterInterruption ==
    /\ [][ InterruptionStep
             => (sourcesRef' = {} /\ nextStartTimeRef' = 0) ]_vars
    /\ [](\A i \in Idx :
             (chunks[i].afterIntr /\ chunks[i].st = "started")
                 => chunks[i].startAt >= chunks[i].startClock)

\* C15: the chunk of a message that also carries an interruption is, once
\* the message is handled, a member of the active set and not stopped.
\* Stated as the claim has it; the code schedules the chunk first and
\* handles the interruption after it, which stops this very chunk.
C15_InterruptionBeforeItsChunk ==
    [][ \A i \in Idx :
          (chunks[i].intr /\ Starts(i))
              => (i \in sourcesRef' /\ ~chunks'[i].stopped) ]_vars

\* the modal shows session s, which is Open and holds its three devices
OpenWithDevices(s) ==
    /\ isOpen /\ s = NumAttempts
    /\ chan[s] = "open"
    /\ streamRef = s
    /\ inputAudioContextRef = s
    /\ outputAudioContextRef = s

\* each device of session s has been released exactly once
ReleasedOnce(s) ==
    releaseCalls[s] = [stream |-> 1, inCtx |-> 1, outCtx |-> 1]

\* C16: in every reachable state cleanupAudio run twice leaves what
\* cleanupAudio run once leaves (so any number of runs does); no device is
\* ever released twice; and the step in which the user closes the modal on
\* an Open session, which runs cleanupAudio twice, releases the microphone
\* stream and both audio contexts of that session exactly once each.
C16_TeardownIdempotent ==
    /\ [](cleanupAudio(cleanupAudio(AudioState)) = cleanupAudio(AudioState))
    /\ [](\A s \in Attempts :
             \A kind \in {"stream", "inCtx", "outCtx"} :
                 releaseCalls[s][kind] <= 1)
    /\ [][ \A s \in Attempts :
             (OpenWithDevices(s) /\ ~isOpen') => ReleasedOnce(s)' ]_vars

\* the user has closed the modal on an Open session that had a source
\* playing: the source is stopped and each device was released once
C16_Witness ==
    /\ ~isOpen
    /\ \E s \in Attempts :
          /\ chan[s] = "open" /\ s \notin cancelled
          /\ ReleasedOnce(s)
          /\ \E i \in Idx : chunks[i].sess = s /\ chunks[i].stopped

\* C17: in every state the flag "AI is responding" is true exactly when the
\* active set is non-empty. Stated as the claim has it; the flag is set
\* when the message arrives, the set is filled after the decode, and the
\* flag is cleared only by an interruption, an empty set at 'ended', or
\* teardown.
C17_RespondingIffActive ==
    isAIResponding <=> (sourcesRef # {})

\* C18: a chunk whose payload does not decode is never started and never a
\* member of the active set, and the step in which its decode fails leaves
\* the connected flag, the error message, the channels, the capture
\* pipeline, the devices and the playback timeline as they were.
C18_DecodeErrorIsLocal ==
    /\ [](\A i \in Idx :
             /\ DecodeFails(chunks[i].bytes)
                    => (chunks[i].st # "started" /\ i \notin sourcesRef)
             /\ chunks[i].st = "failed" => DecodeFails(chunks[i].bytes))
    /\ [][ (\E i \in Idx : chunks[i].st = "decoding"
                            /\ chunks'[i].st = "failed")
             => UNCHANGED <<isConnected, error, chan, pc, isSpeaking,
                            procConnected, procCtx, processorRef, sourceRef,
                            streamRef, liveStreams, inputAudioContextRef,
                            outputAudioContextRef, inCtxOpen, outCtxOpen,
                            sourcesRef, nextStartTimeRef>> ]_vars

\* after a payload that did not decode, the same session, still connected
\* and capturing, has started a later chunk, and the interruption of a
\* still later message has stopped that chunk and reset the timeline
C18_Witness ==
    \E i, j \in Idx :
        /\ i < j
        /\ chunks[i].st = "failed"
        /\ chunks[j].sess = chunks[i].sess
        /\ chunks[j].st = "started"
        /\ ~chunks[j].intr /\ chunks[j].stopped
        /\ sourcesRef = {} /\ nextStartTimeRef = 0
        /\ isConnected /\ error = ErrNone
        /\ Ticking(chunks[i].sess)

\* C19: sendRealtimeInput is invoked in tick order: of two frames sent, the
\* one sent first comes from the earlier tick; a frame still queued comes
\* from a later tick than every frame of its session already sent, the
\* queue itself is in tick order, and once the session promise has
\* resolved nothing stays queued.
C19_FramesSentInTickOrder ==
    /\ \A i, j \in DOMAIN sent : i < j => sent[i].tick < sent[j].tick
    /\ \A p \in Attempts :
          /\ \A i, j \in DOMAIN pendingSends[p] :
                 i < j => pendingSends[p][i].tick < pendingSends[p][j].tick
          /\ \A i \in DOMAIN sent, j \in DOMAIN pendingSends[p] :
                 sent[i].sess = p => sent[i].tick < pendingSends[p][j].tick
          /\ p \in sessionResolved => pendingSends[p] = <<>>

\* two ticks fired before the session promise resolved and one after it,
\* and all three frames have been sent
C19_Witness ==
    /\ Len(sent) >= 3
    /\ sent[1].queued /\ sent[2].queued
    /\ ~sent[3].queued

\* every sample of the block has magnitude a
ConstantAmplitude(block, a) == \A k \in DOMAIN block : Abs(block[k]) = a

\* C20: the step of a capture tick sets the speaking indicator to true
\* exactly when the sum of the magnitudes of the block exceeds the threshold
\* times the number of samples (the mean exceeds the threshold), whatever
\* the indicator was before; for a block of constant amplitude a that is
\* exactly when a exceeds the threshold; and a tick with the same block as
\* the tick before it leaves the indicator as it was.
C20_SpeakingIffAboveThreshold ==
    [][ nTicks' # nTicks =>
          /\ isSpeaking' =
                 (SumAbs(lastBlock') > VadThreshold * Len(lastBlock'))
          /\ \A a \in 0..MaxAmp :
                 ConstantAmplitude(lastBlock', a)
                     => (isSpeaking' = (a > VadThreshold))
          /\ (nTicks > 0 /\ lastBlock' = lastBlock)
                 => isSpeaking' = isSpeaking ]_vars

\* a later tick whose block has exactly the threshold as its amplitude has
\* left the indicator false
C20_Witness ==
    /\ nTicks >= 2
    /\ ConstantAmplitude(lastBlock, VadThreshold)
    /\ ~isSpeaking

\* C21: in every reachable state, handling a message that carries neither
\* audio nor an interruption leaves nextStartTimeRef, the active set, the
\* flags, the error message, the device refs and the devices as they are.
C21_OtherMessagesIgnored ==
    \A s \in Attempts : onmessage(HandlerState, s, 0, FALSE) = HandlerState

\* an Open session with a source playing, an advanced timeline and the
\* flags set: a state in which such a message has something to disturb
C21_Witness ==
    /\ chan[1] = "open"
    /\ sourcesRef # {}
    /\ nextStartTimeRef > 0
    /\ isAIResponding /\ isConnected
    /\ streamRef # Null /\ outputAudioContextRef # Null

\* C22: in every reachable state, handling the interruption twice leaves
\* what handling it once leaves: an empty active set, nextStartTimeRef
\* zero and the AI-responding flag false; and with an empty active set it
\* changes nothing but nextStartTimeRef and that flag, and stops no source.
C22_InterruptIdempotent ==
    LET h == HandlerState
        once == interrupt(h)
    IN /\ interrupt(once) = once
       /\ once.audio.sourcesRef = {}
       /\ once.nextStartTimeRef = 0
       /\ ~once.audio.isAIResponding
       /\ sourcesRef = {} =>
             /\ [once EXCEPT !.audio.chunks = h.audio.chunks]
                    = [h EXCEPT !.nextStartTimeRef = 0,
                                !.audio.isAIResponding = FALSE]
             /\ \A i \in Idx :
                    once.audio.chunks[i].stopped = chunks[i].stopped

\* an interruption has stopped a playing source of an earlier message and
\* left the timeline reset
C22_Witness ==
    /\ \E i \in Idx : chunks[i].stopped /\ ~chunks[i].intr
    /\ sourcesRef = {}
    /\ nextStartTimeRef = 0
    /\ ~isAIResponding

\* C23: the step that opens a session builds its context from the first
\* min(|notes|, 50) notes of the list, in list order, and leaves the list
\* as it is; a later change of the list does not reach a context already
\* built.
C23_ContextIsFirstNotes ==
    /\ [][ (~isOpen /\ isOpen' /\ apiKey) =>
             /\ notes' = notes
             /\ Len(contextSummary') =
                    (IF Len(notes) <= ContextNotes THEN Len(notes)
                                                   ELSE ContextNotes)
             /\ \A i \in 1..Len(contextSummary') :
                    contextSummary'[i] = notes[i] ]_vars
    /\ [][ notes' # notes => contextSummary' = contextSummary ]_vars

\* a session was opened on a list of more than 50 notes: its context holds
\* 50 of them
C23_Witness ==
    /\ isOpen
    /\ Len(notes) > ContextNotes
    /\ Len(contextSummary) = ContextNotes
    /\ contextSummary[1] = notes[1]

\* the list ns with its k-th element taken out
Without(ns, k) ==
    [i \in 1..(Len(ns) - 1) |-> IF i < k THEN ns[i] ELSE ns[i + 1]]

\* C24: every step of the App leaves the note list as it is or adds exactly
\* one note that was not in it, and the notes already present stay, as
\* they were and in the order they had (the code puts the new note at the
\* head of the list).
C24_NotesOnlyGrow ==
    [][ \/ notes' = notes
        \/ /\ Len(notes') = Len(notes) + 1
           /\ \E k \in 1..Len(notes') :
                 /\ Without(notes', k) = notes
                 /\ \A i \in 1..Len(notes) : notes[i] # notes'[k] ]_vars

\* a text note and a voice note were added, a report was generated and the
\* voice session was opened
C24_Witness ==
    /\ Len(notes) >= 2
    /\ rec[1] = "done"
    /\ nClassify > 0
    /\ weeklyReport # 0
    /\ NumAttempts > 0

\* C25: no source is both stopped and a member of the active set; in every
\* reachable state, decodes in flight or not, the interruption stops every
\* member of the active set and leaves the set empty; and so does the
\* interruption of a message that also carried audio, when it runs after
\* the decode.
C25_InterruptionDrainsActiveSet ==
    /\ [](\A i \in sourcesRef : ~chunks[i].stopped)
    /\ [](LET once == interrupt(HandlerState)
          IN /\ once.audio.sourcesRef = {}
             /\ \A i \in sourcesRef : once.audio.chunks[i].stopped)
    /\ [][ \A i \in Idx :
             (chunks[i].intr /\ Starts(i))
                 => /\ sourcesRef' = {}
                    /\ \A j \in sourcesRef \cup {i} : chunks'[j].stopped
         ]_vars

\* an interruption ran while the decode of a chunk was in flight: the
\* source that was playing is stopped and out of the set, the chunk in
\* flight has since been started and is the one member of the set
C25_Witness ==
    \E i, j \in Idx :
        /\ chunks[i].stopped /\ i \notin sourcesRef
        /\ chunks[j].stale /\ chunks[j].st = "started"
        /\ ~chunks[j].stopped
        /\ sourcesRef = {j}

\* every audio message so far is done with: its decode has failed, or its
\* source was started and its 'ended' listener has run
AllChunksDone ==
    \A i \in Idx :
        \/ chunks[i].st = "failed"
        \/ chunks[i].st = "started" /\ chunks[i].ended

\* C26: the step in which the 'ended' listener of the last member of the
\* active set runs clears the AI-responding flag; and once every chunk has
\* completed or failed to decode (from where on, without a further
\* message, nothing changes), the flag is false and the active set empty.
\* Stated as the claim has it; after a decode that failed nothing clears
\* the flag that line 141 has set.
C26_RespondingEndsWithLastHandle ==
    /\ [][ \A i \in Idx :
             (~chunks[i].ended /\ chunks'[i].ended /\ sourcesRef' = {})
                 => ~isAIResponding' ]_vars
    /\ [](AllChunksDone => (~isAIResponding /\ sourcesRef = {}))

TickFor(p) ==
    /\ nTicks' = nTicks + 1
    /\ \/ \E k \in DOMAIN sent' :
              sent'[k].tick = nTicks' /\ sent'[k].sess = p
       \/ \E k \in DOMAIN pendingSends'[p] :
              pendingSends'[p][k].tick = nTicks'

\* C28: a capture tick makes a frame for a session only while that session
\* is Open and has not been closed by the user. Stated as the claim has
\* it; onopen of a session the user has closed finds the device refs of
\* the next session and starts a processor that feeds the old session.
C28_FramesOnlyToOpenSession ==
    [][ \A p \in Attempts :
          TickFor(p) => (chan[p] = "open" /\ ~UserClosed(p)) ]_vars

\* the record button is released and no getUserMedia, stop event or
\* classifyContent call of a voice note is outstanding
Quiescent ==
    /\ ~held
    /\ \A p \in Presses : rec[p] \notin {"awaitMic", "stopping", "sending"}

\* C29: once the record button is released and every pending asynchronous
\* step of the voice note has resolved, no MediaRecorder is recording, no
\* microphone track is live and isRecording is false. Stated as the claim
\* has it; a release that comes before getUserMedia resolves finds
\* isRecording false and stops nothing.
C29_PressMatchedByStop ==
    Quiescent =>
        /\ \A p \in Presses : rec[p] # "recording"
        /\ micLive = {}
        /\ ~isRecording

====
